---- MODULE Spec2Model ----
(***************************************************************************)
(* Audio pipeline of SentinelVoice (src/App.tsx): the press-and-hold       *)
(* recorder (startRecording / stopRecording and the MediaRecorder          *)
(* callbacks), the gain stage set up in startRecording, and the analysis   *)
(* and playback chain (handleAudioProcess / handleSpeak / decodeRawPCM).   *)
(*                                                                         *)
(* One recording session is one call of startRecording.  Sessions are      *)
(* numbered in call order; session i owns the stream, the audio graph and  *)
(* the MediaRecorder that its call creates.  The browser is modelled by    *)
(* the contracts the code relies on:                                       *)
(*   - getUserMedia resolves or rejects some time after the call;          *)
(*   - MediaRecorder.stop() sets state to 'inactive' at once and queues    *)
(*     ONE task that fires dataavailable with the data gathered so far     *)
(*     and then fires stop (W3C MediaStream Recording, "inactivate the     *)
(*     recorder");                                                         *)
(*   - new Int16Array(buffer) throws a RangeError when the byte length of  *)
(*     buffer is odd; createBuffer throws when the length is 0.            *)
(*                                                                         *)
(* Two further parts have their own variables and specifications: the      *)
(* level analyzers (components/LiveMicIndicator.tsx, MiniWaveform.tsx: the *)
(* effect, the animation-frame loop and what a tick computes) and the      *)
(* settings panel (components/SettingsPanel.tsx: device list, devicechange *)
(* listener, preview stream, clipping flag).  There an effect is one step: *)
(* React runs the cleanup of the previous effect and then the effect, and  *)
(* a function registered or returned by an effect sees the props and state *)
(* of the render that created it.                                          *)
(***************************************************************************)
EXTENDS Integers, Sequences, FiniteSets, TLC

(* ---- bounds of the model ---- *)
MaxSessions == 2      \* calls of startRecording explored
MaxChunks == 3        \* non-empty chunks fired before stop(), all recorders
MaxBytes == 4         \* length of a synthesized byte buffer
MaxFrames == 3        \* requestAnimationFrame calls of the analyzer explored
MaxStreams == 2       \* stream objects a parent hands to the analyzer
MaxAcq == 6           \* getUserMedia calls of the settings panel explored
MaxSamples == 3       \* level samples fed to the clipping flag

Sessions == 1..MaxSessions
NoRef == 0            \* a ref whose .current is null

VARIABLES
  pc,               \* per session: where its startRecording / recorder is
  nextId,           \* number of the next startRecording call
  sensAt,           \* per session: `sensitivity` closed over by the call
  mediaRecorderRef, \* mediaRecorderRef.current (a session or NoRef)
  streamRef,        \* streamRef.current (a session or NoRef)
  audioChunksRef,   \* audioChunksRef.current
  streams,          \* per session: the tracks of its capture stream
  ctx,              \* per session: its recording AudioContext
  gain,             \* per session: gainNode.gain.value as a fraction
  blobs,            \* per session: the Blob built by recorder.onstop
  isRecording, isProcessing, error, sensitivity,
  procPc,           \* per session: where handleAudioProcess of its Blob is
  playCtx,          \* audioContextRef.current exists (playback context)
  audioBufferData,  \* per session: bytes gemini.speak resolved with
  speakOut,         \* per session: outcome of handleSpeak
  pcmBuffer,        \* per session: AudioBuffer given to the playback source
  delivered,        \* history: non-empty chunks handed to ondataavailable
  overlapped,       \* history: sessions that overlapped another session
  buttonHeld,       \* history: the last button event was a press
  \* -- a level analyzer component (LiveMicIndicator or MiniWaveform) --
  component,         \* which component is mounted, or "none"
  propStream,        \* its `stream` prop at the last commit (NoRef = null)
  propActive,        \* its `isActive` prop at the last commit
  animationFrameRef, \* animationFrameRef.current (a frame id, or NoRef)
  frameQueue,        \* the browser's pending requestAnimationFrame callbacks
  nextFrame,         \* the id the next requestAnimationFrame returns
  analyserCtx,       \* state of audioContextRef.current
  bufferLength,      \* analyzer.frequencyBinCount read by the effect
  dataArray,         \* the Uint8Array filled by getByteFrequencyData
  volume,            \* the last value given to setVolume
  levels,            \* the last value given to setLevels
  trackLive,         \* per stream object of the parent: its tracks are live
  \* -- SettingsPanel --
  isOpen, selectedDeviceId,
  devices,           \* the `devices` state (ordered device ids)
  stream,            \* the `stream` state (an acquisition, or NoRef)
  effectStream,      \* `stream` as closed over by the preview effect's cleanup
  listener,          \* the registered devicechange listener, or NoListener
  acquired,          \* per getUserMedia call of the panel: its outcome so far
  refreshSel,        \* per refreshDevices call: selectedDeviceId it closed over
  isClipping,
  userChose,         \* history: the user has picked a device in the <select>
  levelSamples,      \* history: scalarVolume samples of the volume meter
  clipHistory        \* history: isClipping after each sample

recVars == <<pc, nextId, sensAt, mediaRecorderRef, streamRef, audioChunksRef,
             streams, ctx, gain, blobs, isRecording, isProcessing, error,
             sensitivity, procPc, playCtx, audioBufferData, speakOut, pcmBuffer,
             delivered, overlapped, buttonHeld>>
anVars == <<component, propStream, propActive, animationFrameRef, frameQueue,
            nextFrame, analyserCtx, bufferLength, dataArray, volume, levels,
            trackLive>>
panelVars == <<isOpen, selectedDeviceId, devices, stream, effectStream,
               listener, acquired, refreshSel, isClipping, userChose,
               levelSamples, clipHistory>>
vars == <<recVars, anVars, panelVars>>

(* ---- values ---- *)
DefaultSensitivity == 50
GainDivisor == 50
SensitivityMin == 0
SensitivityMax == 100
PcmScale == 32768
BlobType == "audio/webm"
NoBlob == [chunks |-> <<>>, type |-> "none"]
NoGain == <<0, 0>>

Zero == <<0, 1>>            \* the number 0 as a fraction
NaN == <<0, 0>>             \* 0 / 0 and undefined / 255: not a number
NoDevice == ""              \* selectedDeviceId = ''
NoListener == "off"         \* no devicechange listener is registered

Range(s) == {s[k] : k \in 1..Len(s)}

RECURSIVE GCD(_, _)
GCD(a, b) == IF b = 0 THEN a ELSE GCD(b, a % b)

\* a gain stage clamped at unity
Factor_Clamped(s) ==
  LET t == IF s > GainDivisor THEN GainDivisor ELSE s IN
  <<t \div GCD(t, GainDivisor), GainDivisor \div GCD(t, GainDivisor)>>

\* sensitivity / 50 as a fraction <<numerator, denominator>> in lowest terms
Factor(s) == <<s \div GCD(s, GainDivisor), GainDivisor \div GCD(s, GainDivisor)>>

\* session states in which getUserMedia has handed the session its stream
Acquired(i) == pc[i] \in {"recording", "flushing", "stopped", "threw"}
\* a call of startRecording that has not run to its end or to onstop
InProgress(i) == pc[i] \in {"awaiting", "recording", "flushing"}

\* no analyzer component is mounted; every stream object a parent will hand
\* over is live
InitAnalyzer ==
  /\ component = "none"
  /\ propStream = NoRef
  /\ propActive = FALSE
  /\ animationFrameRef = NoRef
  /\ frameQueue = {}
  /\ nextFrame = 1
  /\ analyserCtx = "none"
  /\ bufferLength = 0
  /\ dataArray = <<>>
  /\ volume = Zero
  /\ levels = <<Zero, Zero, Zero>>
  /\ trackLive = [s \in 1..MaxStreams |-> TRUE]

\* the settings panel is mounted and closed (isSettingsOpen = false,
\* selectedDeviceId = '')
InitPanel ==
  /\ isOpen = FALSE
  /\ selectedDeviceId = NoDevice
  /\ devices = <<>>
  /\ stream = NoRef
  /\ effectStream = NoRef
  /\ listener = NoListener
  /\ acquired = [k \in 1..MaxAcq |-> "unused"]
  /\ refreshSel = [k \in 1..MaxAcq |-> NoDevice]
  /\ isClipping = FALSE
  /\ userChose = FALSE
  /\ levelSamples = <<>>
  /\ clipHistory = <<>>

Init ==
  /\ pc = [i \in Sessions |-> "unused"]
  /\ nextId = 1
  /\ sensAt = [i \in Sessions |-> DefaultSensitivity]
  /\ mediaRecorderRef = NoRef
  /\ streamRef = NoRef
  /\ audioChunksRef = <<>>
  /\ streams = [i \in Sessions |-> "none"]
  /\ ctx = [i \in Sessions |-> "none"]
  /\ gain = [i \in Sessions |-> NoGain]
  /\ blobs = [i \in Sessions |-> NoBlob]
  /\ isRecording = FALSE
  /\ isProcessing = FALSE
  /\ error = "none"
  /\ sensitivity = DefaultSensitivity
  /\ procPc = [i \in Sessions |-> "none"]
  /\ playCtx = FALSE
  /\ audioBufferData = [i \in Sessions |-> <<>>]
  /\ speakOut = [i \in Sessions |-> "none"]
  /\ pcmBuffer = [i \in Sessions |-> <<>>]
  /\ delivered = [i \in Sessions |-> <<>>]
  /\ overlapped = {}
  /\ buttonHeld = FALSE
  /\ InitAnalyzer
  /\ InitPanel

(* ---- the recorder: startRecording ---- *)

\* startRecording without the reset of the buffer
StaleBuffer == audioChunksRef

\* audioChunksRef.current = [] at the top of startRecording
FreshBuffer == <<>>

\* startRecording up to its await: clears the error and the chunk buffer and
\* asks for the stream.  Nothing in it looks at an earlier session.
StartRecording ==
  /\ nextId <= MaxSessions
  /\ error' = "none"
  /\ audioChunksRef' = FreshBuffer
  /\ pc' = [pc EXCEPT ![nextId] = "awaiting"]
  /\ sensAt' = [sensAt EXCEPT ![nextId] = sensitivity]
  /\ nextId' = nextId + 1
  /\ overlapped' = IF \E j \in Sessions : InProgress(j)
                   THEN overlapped \cup {nextId} \cup {j \in Sessions : InProgress(j)}
                   ELSE overlapped
  /\ buttonHeld' = TRUE
  /\ UNCHANGED <<mediaRecorderRef, streamRef, streams, ctx, gain, blobs,
                 isRecording, isProcessing, sensitivity, procPc, playCtx,
                 audioBufferData, speakOut, pcmBuffer, delivered>>
  /\ UNCHANGED <<anVars, panelVars>>

\* a catch block that only logs the rejection
GetUserMediaReject_Silent(i) ==
  /\ pc[i] = "awaiting"
  /\ pc' = [pc EXCEPT ![i] = "denied"]
  /\ UNCHANGED <<nextId, sensAt, mediaRecorderRef, streamRef, audioChunksRef,
                 streams, ctx, gain, blobs, isRecording, isProcessing, error,
                 sensitivity, procPc, playCtx, audioBufferData, speakOut,
                 pcmBuffer, delivered, overlapped, buttonHeld>>
  /\ UNCHANGED <<anVars, panelVars>>

\* getUserMedia rejects: the catch block reports it.
GetUserMediaReject(i) ==
  /\ pc[i] = "awaiting"
  /\ pc' = [pc EXCEPT ![i] = "denied"]
  /\ error' = "mic"
  /\ UNCHANGED <<nextId, sensAt, mediaRecorderRef, streamRef, audioChunksRef,
                 streams, ctx, gain, blobs, isRecording, isProcessing,
                 sensitivity, procPc, playCtx, audioBufferData, speakOut, pcmBuffer, delivered, overlapped, buttonHeld>>
  /\ UNCHANGED <<anVars, panelVars>>

\* getUserMedia resolves and the rest of the try block runs to its end.
GetUserMediaResolve(i) ==
  /\ pc[i] = "awaiting"
  /\ streamRef' = i
  /\ streams' = [streams EXCEPT ![i] = "live"]
  /\ ctx' = [ctx EXCEPT ![i] = "open"]
  /\ gain' = [gain EXCEPT ![i] = Factor(sensAt[i])]
  /\ mediaRecorderRef' = i
  /\ pc' = [pc EXCEPT ![i] = "recording"]
  /\ isRecording' = TRUE
  /\ UNCHANGED <<nextId, sensAt, audioChunksRef, blobs,
                 isProcessing, error, sensitivity, procPc, playCtx, audioBufferData, speakOut,
                 pcmBuffer, delivered, overlapped, buttonHeld>>
  /\ UNCHANGED <<anVars, panelVars>>

\* getUserMedia resolves and a later statement of the try block throws:
\* at = "context" (new AudioContext), "recorder" (new MediaRecorder) or
\* "start" (recorder.start()).  The catch block only reports the error.
ThrowPoints == {"context", "recorder", "start"}
GetUserMediaResolveThrow(i, at) ==
  /\ pc[i] = "awaiting"
  /\ streamRef' = i
  /\ streams' = [streams EXCEPT ![i] = "live"]
  /\ ctx' = IF at = "context" THEN ctx ELSE [ctx EXCEPT ![i] = "open"]
  /\ gain' = IF at = "context" THEN gain ELSE [gain EXCEPT ![i] = Factor(sensAt[i])]
  /\ mediaRecorderRef' = IF at = "start" THEN i ELSE mediaRecorderRef
  /\ pc' = [pc EXCEPT ![i] = "threw"]
  /\ error' = "mic"
  /\ UNCHANGED <<nextId, sensAt, audioChunksRef, blobs,
                 isRecording, isProcessing, sensitivity, procPc, playCtx,
                 audioBufferData, speakOut, pcmBuffer, delivered, overlapped,
                 buttonHeld>>
  /\ UNCHANGED <<anVars, panelVars>>

(* ---- the recorder: chunks and stop ---- *)

\* a chunk: the recorder it comes from, its number among that recorder's
\* non-empty chunks, its size, and whether it was fired after stop() had
\* been called on that recorder
Chunk(i, k, size, late) ==
  [src |-> i, seq |-> IF size > 0 THEN k ELSE 0, size |-> size, afterStop |-> late]

\* ondataavailable putting the new chunk first
OnDataAvailable_Unshift(buf, c) == IF c.size > 0 THEN <<c>> \o buf ELSE buf

\* ondataavailable ignoring what arrives once stop() has been called
OnDataAvailable_DropLate(buf, c) ==
  IF c.size > 0 /\ ~c.afterStop THEN Append(buf, c) ELSE buf

\* recorder.ondataavailable
OnDataAvailable(buf, c) == IF c.size > 0 THEN Append(buf, c) ELSE buf

\* what ondataavailable has been handed (history)
Record(hist, c) == IF c.size > 0 THEN Append(hist, c) ELSE hist

\* the number of chunks fired so far by recorders that were recording
RECURSIVE EarlyChunks(_)
EarlyChunks(n) ==
  IF n = 0 THEN 0
  ELSE EarlyChunks(n - 1) + Len(SelectSeq(delivered[n], LAMBDA c : ~c.afterStop))

\* a dataavailable event of a recorder that is recording
DataAvailable(i, size) ==
  /\ pc[i] = "recording"
  /\ EarlyChunks(MaxSessions) < MaxChunks
  /\ LET c == Chunk(i, Len(delivered[i]) + 1, size, FALSE) IN
       /\ audioChunksRef' = OnDataAvailable(audioChunksRef, c)
       /\ delivered' = [delivered EXCEPT ![i] = Record(@, c)]
  /\ UNCHANGED <<pc, nextId, sensAt, mediaRecorderRef, streamRef, streams,
                 ctx, gain, blobs, isRecording, isProcessing, error,
                 sensitivity, procPc, playCtx, audioBufferData, speakOut, pcmBuffer,
                 overlapped, buttonHeld>>
  /\ UNCHANGED <<anVars, panelVars>>

\* getTracks().forEach(track => track.stop()) on a stream: "ended" after the
\* first call, "reended" once it has been called on tracks already ended
StopTracks(st) == IF st = "live" THEN "ended" ELSE "reended"

\* a guard that only looks for a recorder, not at its state
ShouldStop_AnyState(ref, states) == ref # NoRef

\* the guard of stopRecording's call of recorder.stop()
ShouldStop(ref, states) == ref # NoRef /\ states[ref] = "recording"

\* stopRecording
StopRecording ==
  /\ pc' = IF ShouldStop(mediaRecorderRef, pc)
           THEN [pc EXCEPT ![mediaRecorderRef] = "flushing"]
           ELSE pc
  /\ streams' = IF streamRef # NoRef
                THEN [streams EXCEPT ![streamRef] = StopTracks(@)]
                ELSE streams
  /\ isRecording' = FALSE
  /\ buttonHeld' = FALSE
  /\ UNCHANGED <<nextId, sensAt, mediaRecorderRef, streamRef, audioChunksRef,
                 ctx, gain, blobs, isProcessing, error, sensitivity, procPc,
                 playCtx, audioBufferData, speakOut, pcmBuffer, delivered, overlapped>>
  /\ UNCHANGED <<anVars, panelVars>>

\* recorder.onstop: the Blob it builds from the buffer
OnStopBlob(buf) == [chunks |-> buf, type |-> BlobType]

\* the task queued by recorder.stop(): the last dataavailable event, then
\* the stop event; onstop builds the Blob, calls handleAudioProcess (which
\* sets isProcessing and starts the reader) and closes the audio graph.
RecorderStopTask(i, size) ==
  /\ pc[i] = "flushing"
  /\ LET c == Chunk(i, Len(delivered[i]) + 1, size, TRUE)
         buf == OnDataAvailable(audioChunksRef, c) IN
       /\ audioChunksRef' = buf
       /\ delivered' = [delivered EXCEPT ![i] = Record(@, c)]
       /\ blobs' = [blobs EXCEPT ![i] = OnStopBlob(buf)]
  /\ pc' = [pc EXCEPT ![i] = "stopped"]
  /\ isProcessing' = TRUE
  /\ error' = "none"
  /\ procPc' = [procPc EXCEPT ![i] = "analysing"]
  /\ ctx' = [ctx EXCEPT ![i] = "closed"]
  /\ UNCHANGED <<nextId, sensAt, mediaRecorderRef, streamRef, streams,
                 gain, isRecording, sensitivity, playCtx, audioBufferData, speakOut, pcmBuffer,
                 overlapped, buttonHeld>>
  /\ UNCHANGED <<anVars, panelVars>>

(* ---- the record button ---- *)

\* onMouseDown / onMouseUp / onMouseLeave: React delivers no mouse events to
\* a button that is disabled (disabled={isProcessing}).
OnMouseDown == ~isProcessing /\ StartRecording
OnMouseUp == ~isProcessing /\ StopRecording
OnMouseLeave == ~isProcessing /\ isRecording /\ StopRecording
\* onTouchStart / onTouchEnd: touch events are not held back by `disabled`.
OnTouchStart == StartRecording
OnTouchEnd == StopRecording

(* ---- the settings slider ---- *)

\* onSensitivityChange={setSensitivity}: nothing else reads the new value
\* until the next call of startRecording.
SetSensitivity(v) ==
  /\ v \in SensitivityMin..SensitivityMax
  /\ v # sensitivity
  /\ sensitivity' = v
  /\ UNCHANGED <<pc, nextId, sensAt, mediaRecorderRef, streamRef,
                 audioChunksRef, streams, ctx, gain, blobs, isRecording,
                 isProcessing, error, procPc, playCtx, audioBufferData, speakOut, pcmBuffer,
                 delivered, overlapped, buttonHeld>>
  /\ UNCHANGED <<anVars, panelVars>>

(* ---- analysis and playback ---- *)

\* reader.onloadend after gemini.processAudioInput resolved: the history is
\* extended and handleSpeak runs up to its await of gemini.speak, creating
\* the playback context if there is none.
AnalysisResolve(i) ==
  /\ procPc[i] = "analysing"
  /\ procPc' = [procPc EXCEPT ![i] = "speaking"]
  /\ playCtx' = TRUE
  /\ UNCHANGED <<pc, nextId, sensAt, mediaRecorderRef, streamRef,
                 audioChunksRef, streams, ctx, gain, blobs, isRecording,
                 isProcessing, error, sensitivity, audioBufferData, speakOut, pcmBuffer,
                 delivered, overlapped, buttonHeld>>
  /\ UNCHANGED <<anVars, panelVars>>

\* gemini.processAudioInput rejects inside reader.onloadend: no handler
\* catches it, so setIsProcessing(false) is never reached for this Blob.
AnalysisReject(i) ==
  /\ procPc[i] = "analysing"
  /\ procPc' = [procPc EXCEPT ![i] = "rejected"]
  /\ UNCHANGED <<pc, nextId, sensAt, mediaRecorderRef, streamRef,
                 audioChunksRef, streams, ctx, gain, blobs, isRecording,
                 isProcessing, error, sensitivity, playCtx, audioBufferData, speakOut,
                 pcmBuffer, delivered, overlapped, buttonHeld>>
  /\ UNCHANGED <<anVars, panelVars>>

\* the two bytes read as an unsigned 16-bit number
Int16LE_Unsigned(lo, hi) == lo + 256 * hi

\* one Int16Array element from two bytes (little-endian, two's complement)
Int16LE(lo, hi) ==
  LET u == lo + 256 * hi IN IF u >= PcmScale THEN u - 2 * PcmScale ELSE u

\* a decoder that drops a trailing odd byte instead of failing
DecodeRawPCM_Truncating(data) ==
  IF Len(data) < 2
  THEN [ok |-> FALSE, error |-> "NotSupportedError", samples |-> <<>>]
  ELSE [ok |-> TRUE, error |-> "none",
        samples |-> [k \in 1..(Len(data) \div 2) |->
                       <<Int16LE(data[2 * k - 1], data[2 * k]), PcmScale>>]]

\* decodeRawPCM: new Int16Array(data.buffer) throws on an odd byte length,
\* ctx.createBuffer throws on length 0; sample k is dataInt16[k] / 32768.0,
\* kept as the fraction <<dataInt16[k], 32768>>.
DecodeRawPCM(data) ==
  IF Len(data) % 2 # 0
  THEN [ok |-> FALSE, error |-> "RangeError", samples |-> <<>>]
  ELSE IF Len(data) = 0
  THEN [ok |-> FALSE, error |-> "NotSupportedError", samples |-> <<>>]
  ELSE [ok |-> TRUE, error |-> "none",
        samples |-> [k \in 1..(Len(data) \div 2) |->
                       <<Int16LE(data[2 * k - 1], data[2 * k]), PcmScale>>]]

\* handleSpeak's try/catch around the decode and the playback: "played"
\* (source.start() ran), "skipped" (caught and logged); "thrown" would be an
\* error leaving handleSpeak.
SpeakOutcome(d) == IF d.ok THEN "played" ELSE "skipped"

\* gemini.speak resolved with `data`: the rest of handleSpeak, then the
\* caller's setIsProcessing(false), which runs only if handleSpeak returned.
SpeakResolve(i, data) ==
  /\ procPc[i] = "speaking"
  /\ LET d == DecodeRawPCM(data)
         out == SpeakOutcome(d) IN
       /\ speakOut' = [speakOut EXCEPT ![i] = out]
       /\ pcmBuffer' = [pcmBuffer EXCEPT ![i] = IF out = "played" THEN d.samples ELSE <<>>]
       /\ procPc' = [procPc EXCEPT ![i] = IF out = "thrown" THEN "rejected" ELSE "done"]
       /\ isProcessing' = IF out = "thrown" THEN isProcessing ELSE FALSE
  /\ audioBufferData' = [audioBufferData EXCEPT ![i] = data]
  /\ UNCHANGED <<pc, nextId, sensAt, mediaRecorderRef, streamRef,
                 audioChunksRef, streams, ctx, gain, blobs, isRecording,
                 error, sensitivity, playCtx, delivered, overlapped,
                 buttonHeld>>
  /\ UNCHANGED <<anVars, panelVars>>

\* gemini.speak rejects ("No audio returned", a network error): caught and
\* logged by handleSpeak ("failed": the decode never ran); the caller goes on
\* to setIsProcessing(false).
SpeakReject(i) ==
  /\ procPc[i] = "speaking"
  /\ speakOut' = [speakOut EXCEPT ![i] = "failed"]
  /\ procPc' = [procPc EXCEPT ![i] = "done"]
  /\ isProcessing' = FALSE
  /\ UNCHANGED <<pc, nextId, sensAt, mediaRecorderRef, streamRef,
                 audioChunksRef, streams, ctx, gain, blobs, isRecording,
                 error, sensitivity, playCtx, pcmBuffer, audioBufferData,
                 delivered, overlapped, buttonHeld>>
  /\ UNCHANGED <<anVars, panelVars>>

(* ---- the level analyzers: LiveMicIndicator and MiniWaveform ---- *)

\* The two components have the same effect and the same polling loop; they
\* differ in the transform size and in what a tick computes.  One instance is
\* modelled; its parent is not part of the sources, so the props are whatever
\* a parent may pass.  React runs the cleanup of the previous effect and then
\* the effect when `stream` or `isActive` changed; a stream's tracks can end
\* (track.stop() by its owner, device removed) while the props stay the same.

FftSizeVolume == 64      \* analyzer.fftSize of LiveMicIndicator
FftSizeBands == 32       \* analyzer.fftSize of MiniWaveform
VolumeCeiling == 128     \* average / 128
ByteMax == 255           \* dataArray[k] / 255
BandBins == <<1, 4, 8>>  \* the bins update reads (indices from 0)
Components == {"LiveMicIndicator", "MiniWaveform"}

FftSize(c) == IF c = "LiveMicIndicator" THEN FftSizeVolume ELSE FftSizeBands
\* AnalyserNode.frequencyBinCount is half the fftSize
FrequencyBinCount(fft) == fft \div 2

\* what getByteFrequencyData writes into the n bins: the first in.k bins
\* get magnitude in.a, the others magnitude in.b
ByteVals == {0, 128, 255}
Cuts == {0, 1, 16}
BinInputs == [k : Cuts, a : ByteVals, b : ByteVals]
Bins(n, in) == [j \in 1..n |-> IF j <= in.k THEN in.a ELSE in.b]
\* a stream whose tracks have ended gives silence
Heard(s, in) == (s # NoRef /\ trackLive[s]) \/ (in.a = 0 /\ in.b = 0)

\* the loop `for (i = 0; i < bufferLength; i++) sum += dataArray[i]`
RECURSIVE SumBins(_, _)
SumBins(arr, n) == IF n = 0 THEN 0 ELSE SumBins(arr, n - 1) + arr[n]

\* the volume passed on as it is
MathMin1_None(x) == x

\* Math.min(1, x) of a fraction x; Math.min(1, NaN) is NaN
MathMin1(x) ==
  IF x[2] = 0 THEN NaN ELSE IF x[1] >= x[2] THEN <<1, 1>> ELSE x

\* updateVolume: (sum / bufferLength) / 128, at most 1
NormalizedVolume(arr, n) == MathMin1(<<SumBins(arr, n), n * VolumeCeiling>>)

\* update: dataArray[j] / 255; an index past the end reads undefined
Band(arr, j) == IF j + 1 <= Len(arr) THEN <<arr[j + 1], ByteMax>> ELSE NaN
BandLevels(arr) == [b \in 1..3 |-> Band(arr, BandBins[b])]

\* the body of updateVolume / update once analyzerRef.current is set: read
\* the n bins, emit the value, request the next frame
Poll(d, n) ==
  /\ dataArray' = d
  /\ volume' = IF component = "LiveMicIndicator"
               THEN NormalizedVolume(d, n) ELSE volume
  /\ levels' = IF component = "MiniWaveform" THEN BandLevels(d) ELSE levels
  /\ animationFrameRef' = nextFrame
  /\ nextFrame' = nextFrame + 1

\* cancelAnimationFrame(animationFrameRef.current), guarded by the ref
Cancel(q, ref) == IF ref # NoRef THEN q \ {ref} ELSE q

\* the component is mounted with stream = null, isActive = false: the effect
\* takes its early return and finds the refs empty
Mount(c) ==
  /\ component = "none"
  /\ component' = c
  /\ UNCHANGED <<propStream, propActive, animationFrameRef, frameQueue,
                 nextFrame, analyserCtx, bufferLength, dataArray, volume,
                 levels, trackLive>>
  /\ UNCHANGED <<recVars, panelVars>>

\* a commit with changed props: the cleanup the previous effect returned,
\* then the effect.  The new analyser reports the frequencyBinCount of its
\* fftSize (or, with `empty`, no bins at all); `in` is what its first
\* getByteFrequencyData writes.
Render(s, act, empty, in) ==
  /\ component # "none"
  /\ <<s, act>> # <<propStream, propActive>>
  /\ s # NoRef => trackLive[s]
  /\ LET wasOn == propActive /\ propStream # NoRef
         q1 == IF wasOn THEN Cancel(frameQueue, animationFrameRef) ELSE frameQueue
         c1 == IF wasOn /\ analyserCtx = "open" THEN "closed" ELSE analyserCtx
         n == IF empty THEN 0 ELSE FrequencyBinCount(FftSize(component)) IN
       IF act /\ s # NoRef
       THEN /\ nextFrame <= MaxFrames
            /\ Heard(s, in)
            /\ bufferLength' = n
            /\ analyserCtx' = "open"
            /\ frameQueue' = q1 \cup {nextFrame}
            /\ Poll(Bins(n, in), n)
       ELSE /\ volume' = IF component = "LiveMicIndicator" THEN Zero ELSE volume
            /\ frameQueue' = Cancel(q1, animationFrameRef)
            /\ analyserCtx' = IF c1 = "open" THEN "closed" ELSE c1
            /\ UNCHANGED <<animationFrameRef, nextFrame, bufferLength, dataArray, levels>>
  /\ propStream' = s
  /\ propActive' = act
  /\ UNCHANGED <<component, trackLive>>
  /\ UNCHANGED <<recVars, panelVars>>

\* the browser runs a pending animation frame callback
Tick(in) ==
  /\ nextFrame <= MaxFrames
  /\ Heard(propStream, in)
  /\ \E f \in frameQueue : frameQueue' = (frameQueue \ {f}) \cup {nextFrame}
  /\ Poll(Bins(bufferLength, in), bufferLength)
  /\ UNCHANGED <<component, propStream, propActive, analyserCtx, bufferLength,
                 trackLive>>
  /\ UNCHANGED <<recVars, panelVars>>

\* the tracks of a stream object end; no prop of the component changes
TrackEnded(s) ==
  /\ component # "none"
  /\ trackLive[s]
  /\ trackLive' = [trackLive EXCEPT ![s] = FALSE]
  /\ UNCHANGED <<component, propStream, propActive, animationFrameRef,
                 frameQueue, nextFrame, analyserCtx, bufferLength, dataArray,
                 volume, levels>>
  /\ UNCHANGED <<recVars, panelVars>>

\* the component is unmounted: the last cleanup runs, state and refs are gone
Unmount ==
  /\ component # "none"
  /\ component' = "none"
  /\ frameQueue' = IF propActive /\ propStream # NoRef
                   THEN Cancel(frameQueue, animationFrameRef) ELSE frameQueue
  /\ propStream' = NoRef
  /\ propActive' = FALSE
  /\ animationFrameRef' = NoRef
  /\ analyserCtx' = "none"
  /\ bufferLength' = 0
  /\ dataArray' = <<>>
  /\ volume' = Zero
  /\ levels' = <<Zero, Zero, Zero>>
  /\ UNCHANGED <<nextFrame, trackLive>>
  /\ UNCHANGED <<recVars, panelVars>>

(* ---- SettingsPanel: device list and preview stream ---- *)

\* The panel is always mounted; App passes isOpen, selectedDeviceId and
\* onDeviceChange = setSelectedDeviceId.  Every getUserMedia call of the panel
\* is an acquisition, numbered in call order: "awaitRefresh" (called by
\* refreshDevices), "awaitPreview" (called by updatePreviewStream), then
\* "live", "ended" (its tracks were stopped) or "failed".

\* what enumerateDevices can answer (audio inputs, in order)
DeviceLists == {<<>>, <<"default", "usb">>, <<"usb", "bt">>}

Free(acq) == {k \in 1..MaxAcq : acq[k] = "unused"}
NewAcq(acq) == CHOOSE k \in Free(acq) : \A j \in Free(acq) : k <= j
Pending(acq) == {k \in 1..MaxAcq : acq[k] \in {"awaitRefresh", "awaitPreview"}}
Live(acq) == {k \in 1..MaxAcq : acq[k] = "live"}

\* stream.getTracks().forEach(t => t.stop()), guarded by `if (stream)`
StopTracksOf(acq, k) == IF k # NoRef THEN [acq EXCEPT ![k] = "ended"] ELSE acq

\* audioInputs.find(d => d.deviceId === 'default') || audioInputs[0]
DefaultDevice(list) == IF "default" \in Range(list) THEN "default" ELSE list[1]

\* the preview effect at a commit where isOpen or selectedDeviceId changed:
\* the cleanup returned by the previous run stops the `stream` that run had
\* closed over; updatePreviewStream then stops the `stream` of this render
\* and, if the panel is open, calls getUserMedia, else calls setStream(null).
\* acq is the acquisition table as the earlier effects of the commit left it.
PreviewEffect(open, acq) ==
  LET stopped == StopTracksOf(StopTracksOf(acq, effectStream), stream) IN
    /\ effectStream' = stream
    /\ IF open
       THEN /\ acquired' = [stopped EXCEPT ![NewAcq(stopped)] = "awaitPreview"]
            /\ stream' = stream
       ELSE /\ acquired' = stopped
            /\ stream' = NoRef

\* the settings button: isOpen becomes true.  The listener effect calls
\* refreshDevices() and registers it for devicechange; the function closes
\* over the selectedDeviceId of this render.  Then the preview effect runs.
OpenPanel ==
  /\ ~isOpen
  /\ Cardinality(Free(acquired)) >= 2
  /\ isOpen' = TRUE
  /\ listener' = selectedDeviceId
  /\ LET r == NewAcq(acquired) IN
       /\ refreshSel' = [refreshSel EXCEPT ![r] = selectedDeviceId]
       /\ PreviewEffect(TRUE, [acquired EXCEPT ![r] = "awaitRefresh"])
  /\ UNCHANGED <<selectedDeviceId, devices, userChose, isClipping, levelSamples, clipHistory>>
  /\ UNCHANGED <<recVars, anVars>>

\* onClose: isOpen becomes false; the listener is removed and the preview
\* effect runs with the panel closed.
ClosePanel ==
  /\ isOpen
  /\ isOpen' = FALSE
  /\ listener' = NoListener
  /\ PreviewEffect(FALSE, acquired)
  /\ UNCHANGED <<selectedDeviceId, devices, refreshSel, userChose, isClipping, levelSamples, clipHistory>>
  /\ UNCHANGED <<recVars, anVars>>

\* a devicechange event: the registered refreshDevices runs up to its first
\* await, with the selectedDeviceId it closed over when it was registered
DeviceChange ==
  /\ listener # NoListener
  /\ Free(acquired) # {}
  /\ LET r == NewAcq(acquired) IN
       /\ refreshSel' = [refreshSel EXCEPT ![r] = listener]
       /\ acquired' = [acquired EXCEPT ![r] = "awaitRefresh"]
  /\ UNCHANGED <<isOpen, selectedDeviceId, devices, stream, effectStream,
                 listener, userChose, isClipping, levelSamples, clipHistory>>
  /\ UNCHANGED <<recVars, anVars>>

\* getUserMedia of refreshDevices resolves (the stream is not kept) and
\* enumerateDevices answers `list`: setDevices, and onDeviceChange if the
\* list is not empty and the closed-over selectedDeviceId is empty.  A
\* changed selectedDeviceId makes the preview effect run again.
RefreshResolve(k, list) ==
  /\ acquired[k] = "awaitRefresh"
  /\ devices' = list
  /\ LET sel == IF list # <<>> /\ refreshSel[k] = NoDevice
                THEN DefaultDevice(list) ELSE selectedDeviceId
         acq == [acquired EXCEPT ![k] = "live"] IN
       /\ selectedDeviceId' = sel
       /\ IF sel # selectedDeviceId
          THEN /\ isOpen => Free(acq) # {}
               /\ PreviewEffect(isOpen, acq)
          ELSE /\ acquired' = acq
               /\ UNCHANGED <<stream, effectStream>>
  /\ UNCHANGED <<isOpen, listener, refreshSel, userChose, isClipping, levelSamples, clipHistory>>
  /\ UNCHANGED <<recVars, anVars>>

\* getUserMedia of refreshDevices rejects: logged
RefreshReject(k) ==
  /\ acquired[k] = "awaitRefresh"
  /\ acquired' = [acquired EXCEPT ![k] = "failed"]
  /\ UNCHANGED <<isOpen, selectedDeviceId, devices, stream, effectStream,
                 listener, refreshSel, userChose, isClipping, levelSamples, clipHistory>>
  /\ UNCHANGED <<recVars, anVars>>

\* the user picks a device in the <select>: onDeviceChange(e.target.value),
\* then the preview effect
SelectDevice(d) ==
  /\ isOpen
  /\ d \in Range(devices)
  /\ d # selectedDeviceId
  /\ Free(acquired) # {}
  /\ selectedDeviceId' = d
  /\ userChose' = TRUE
  /\ PreviewEffect(TRUE, acquired)
  /\ UNCHANGED <<isOpen, devices, listener, refreshSel, isClipping, levelSamples, clipHistory>>
  /\ UNCHANGED <<recVars, anVars>>

\* getUserMedia of updatePreviewStream resolves: setStream(newStream)
PreviewResolve(k) ==
  /\ acquired[k] = "awaitPreview"
  /\ acquired' = [acquired EXCEPT ![k] = "live"]
  /\ stream' = k
  /\ UNCHANGED <<isOpen, selectedDeviceId, devices, effectStream, listener,
                 refreshSel, userChose, isClipping, levelSamples, clipHistory>>
  /\ UNCHANGED <<recVars, anVars>>

\* getUserMedia of updatePreviewStream rejects: logged
PreviewReject(k) ==
  /\ acquired[k] = "awaitPreview"
  /\ acquired' = [acquired EXCEPT ![k] = "failed"]
  /\ UNCHANGED <<isOpen, selectedDeviceId, devices, stream, effectStream,
                 listener, refreshSel, userChose, isClipping, levelSamples, clipHistory>>
  /\ UNCHANGED <<recVars, anVars>>

(* ---- SettingsPanel: the clipping flag ---- *)

\* VolumeMeter is not among the sources.  Following the Clipping Detector of
\* the specification it calls onClip on every sample with
\* (scalarVolume >= threshold); levels are in hundredths.
ClipThreshold == 90
SampleLevels == {0, 89, 90, 100}
Clipping(v) == v >= ClipThreshold

\* a handler that only ever raises the flag
HandleClip_Latched(clipping) == isClipping \/ clipping

\* handleClip: setIsClipping(clipping)
HandleClip(clipping) == clipping

\* the volume meter of the open panel takes a sample of the preview stream
\* and reports it through onClip; a stream whose tracks ended is silent
LevelSample(v) ==
  /\ isOpen
  /\ stream # NoRef
  /\ acquired[stream] # "live" => v = 0
  /\ Len(levelSamples) < MaxSamples
  /\ isClipping' = HandleClip(Clipping(v))
  /\ levelSamples' = Append(levelSamples, v)
  /\ clipHistory' = Append(clipHistory, isClipping')
  /\ UNCHANGED <<isOpen, selectedDeviceId, devices, stream, effectStream,
                 listener, acquired, refreshSel, userChose>>
  /\ UNCHANGED <<recVars, anVars>>

(* ---- specifications ---- *)

ChunkSizes == {0, 1}                      \* e.data.size: empty or not
PcmBytes == {0, 1, 128, 255}
RECURSIVE SeqsUpTo(_, _)
SeqsUpTo(S, n) ==
  IF n = 0 THEN {<<>>}
  ELSE LET shorter == SeqsUpTo(S, n - 1) IN
       shorter \cup {Append(q, x) : q \in {r \in shorter : Len(r) = n - 1}, x \in S}
AllPcm == SeqsUpTo(PcmBytes, MaxBytes)

\* the recorder life cycle over MaxSessions calls of startRecording; the
\* analysis service has not answered yet (its answers are in SpecSpeak)
Next ==
  \/ OnMouseDown
  \/ OnTouchStart
  \/ OnMouseUp
  \/ OnTouchEnd
  \/ OnMouseLeave
  \/ \E i \in Sessions : GetUserMediaReject(i)
  \/ \E i \in Sessions : GetUserMediaResolve(i)
  \/ \E i \in Sessions, at \in ThrowPoints : GetUserMediaResolveThrow(i, at)
  \/ \E i \in Sessions, size \in ChunkSizes : DataAvailable(i, size)
  \/ \E i \in Sessions, size \in ChunkSizes : RecorderStopTask(i, size)

Spec == Init /\ [][Next]_vars

\* one recording with the slider moved over its whole range at any time
FirstPress == nextId = 1 /\ OnMouseDown
NextGain ==
  \/ FirstPress
  \/ \E i \in Sessions : GetUserMediaResolve(i)
  \/ OnMouseUp
  \/ \E i \in Sessions : RecorderStopTask(i, 1)
  \/ \E v \in SensitivityMin..SensitivityMax : SetSensitivity(v)

SpecGain == Init /\ [][NextGain]_vars

\* one recording whose synthesized reply is any byte buffer up to MaxBytes
NextSpeak ==
  \/ FirstPress
  \/ \E i \in Sessions : GetUserMediaResolve(i)
  \/ OnMouseUp
  \/ \E i \in Sessions : RecorderStopTask(i, 1)
  \/ \E i \in Sessions : AnalysisResolve(i)
  \/ \E i \in Sessions : AnalysisReject(i)
  \/ \E i \in Sessions, data \in AllPcm : SpeakResolve(i, data)
  \/ \E i \in Sessions : SpeakReject(i)

SpecSpeak == Init /\ [][NextSpeak]_vars

\* one analyzer component under any parent; the analyser node reports the
\* bin count of the Web Audio contract
NextAnalyzer ==
  \/ \E c \in Components : Mount(c)
  \/ \E s \in 0..MaxStreams, act \in BOOLEAN, in \in BinInputs :
       Render(s, act, FALSE, in)
  \/ \E in \in BinInputs : Tick(in)
  \/ \E s \in 1..MaxStreams : TrackEnded(s)
  \/ Unmount

SpecAnalyzer == Init /\ [][NextAnalyzer]_vars

\* the same with an analyser node whose bin array may also be empty
NextAnyBins ==
  \/ \E c \in Components : Mount(c)
  \/ \E s \in 0..MaxStreams, act \in BOOLEAN, empty \in BOOLEAN, in \in BinInputs :
       Render(s, act, empty, in)
  \/ \E in \in BinInputs : Tick(in)
  \/ \E s \in 1..MaxStreams : TrackEnded(s)
  \/ Unmount

SpecAnyBins == Init /\ [][NextAnyBins]_vars

\* the settings panel: opening and closing, device selection, devicechange
\* events and the answers of getUserMedia / enumerateDevices
NextPanel ==
  \/ OpenPanel
  \/ ClosePanel
  \/ DeviceChange
  \/ \E k \in 1..MaxAcq, list \in DeviceLists : RefreshResolve(k, list)
  \/ \E k \in 1..MaxAcq : RefreshReject(k)
  \/ \E d \in {"default", "usb", "bt"} : SelectDevice(d)
  \/ \E k \in 1..MaxAcq : PreviewResolve(k)
  \/ \E k \in 1..MaxAcq : PreviewReject(k)

SpecPanel == Init /\ [][NextPanel]_vars

\* the volume meter of the panel while the device list has not answered
NextClip ==
  \/ OpenPanel
  \/ ClosePanel
  \/ \E k \in 1..MaxAcq : PreviewResolve(k)
  \/ \E v \in SampleLevels : LevelSample(v)

SpecClip == Init /\ [][NextClip]_vars

(* ---- properties ---- *)

\* the button is up and nothing asked of the browser is still outstanding
Quiescent ==
  /\ ~buttonHeld
  /\ \A i \in Sessions : pc[i] \notin {"awaiting", "flushing"}

\* C1: the Blob of a recording that no other call of startRecording
\* overlapped holds exactly the non-empty chunks handed to its
\* ondataavailable, each once and in arrival order, and is tagged audio/webm.
C1_RoundTrip ==
  \A i \in Sessions :
    (blobs[i] # NoBlob /\ i \notin overlapped)
      => blobs[i] = [chunks |-> delivered[i], type |-> "audio/webm"]

\* a finished recording of three chunks c1, c2, c3, with no other session
C1_Witness ==
  /\ nextId = 2
  /\ pc[1] = "stopped"
  /\ Len(delivered[1]) = 3
  /\ \A k \in 1..3 : delivered[1][k].seq = k
  /\ blobs[1].chunks = delivered[1]

\* C2 as claimed: a chunk delivered after recorder.stop() was called is
\* neither appended to the buffer nor part of a Blob.
C2_LateChunkDropped ==
  \A i \in Sessions : \A c \in Range(delivered[i]) :
    c.afterStop =>
      /\ c \notin Range(audioChunksRef)
      /\ \A j \in Sessions : c \notin Range(blobs[j].chunks)

\* C2 amended: a non-empty chunk delivered between recorder.stop() and the
\* stop event is appended and is the last chunk of that recorder's Blob.
C2_LateChunkInBlob ==
  \A i \in Sessions : \A c \in Range(delivered[i]) :
    (c.afterStop /\ pc[i] = "stopped")
      => /\ blobs[i] # NoBlob
         /\ Len(blobs[i].chunks) > 0
         /\ blobs[i].chunks[Len(blobs[i].chunks)] = c

\* a Blob that ends with the chunk fired after stop(), after an earlier chunk
C2_Witness ==
  \E i \in Sessions :
    /\ pc[i] = "stopped"
    /\ Len(blobs[i].chunks) = 2
    /\ ~blobs[i].chunks[1].afterStop
    /\ blobs[i].chunks[2].afterStop

\* C3 as claimed: at most one recorder is recording at a time, and the buffer
\* never holds chunks of two recorders.
C3_OneRecordingAtATime ==
  /\ Cardinality({i \in Sessions : pc[i] = "recording"}) <= 1
  /\ \A c \in Range(audioChunksRef), d \in Range(audioChunksRef) : c.src = d.src

\* C4 as claimed: the tracks of an acquired stream are never stopped twice,
\* and once the button is up and nothing is outstanding every acquired stream
\* has its tracks stopped and its audio graph closed.
C4_ReleasedExactlyOnce ==
  /\ \A i \in Sessions : streams[i] # "reended"
  /\ Quiescent =>
       \A i \in Sessions :
         Acquired(i) => (streams[i] = "ended" /\ ctx[i] # "open")

\* C5: a call of stopRecording while no recorder is recording leaves every
\* recorder's state, the chunk buffer, the Blobs and the hand-offs to
\* handleAudioProcess as they were.
C5_StopWhileIdleIsNoOp ==
  [][(StopRecording /\ \A i \in Sessions : pc[i] # "recording")
       => (pc' = pc /\ audioChunksRef' = audioChunksRef /\ blobs' = blobs
           /\ procPc' = procPc /\ isProcessing' = isProcessing)]_vars

\* stopRecording has run twice after the only recording began: the second
\* call met a recorder that was no longer recording
C5_Witness ==
  /\ nextId = 2
  /\ pc[1] = "stopped"
  /\ streams[1] = "reended"
  /\ blobs[1] # NoBlob

\* C6 as claimed: once the button is up and nothing is outstanding, every
\* recorder that entered the recording state has run onstop, built its Blob
\* and handed it to handleAudioProcess; and no Blob exists before the stop.
C6_FinalizedExactlyOnce ==
  /\ Quiescent =>
       \A i \in Sessions :
         pc[i] \in {"recording", "flushing", "stopped"}
           => (pc[i] = "stopped" /\ blobs[i] # NoBlob /\ procPc[i] # "none")
  /\ \A i \in Sessions : blobs[i] # NoBlob => pc[i] = "stopped"

C8_LiveGainUpdate ==
  [][\A i \in Sessions :
       (pc[i] = "recording" /\ sensitivity' # sensitivity)
         => gain'[i] = Factor(sensitivity')]_vars

C10_OddLengthRejected ==
  \A i \in Sessions :
    (speakOut[i] # "none" /\ Len(audioBufferData[i]) % 2 = 1)
      => /\ DecodeRawPCM(audioBufferData[i]).error = "RangeError"
         /\ speakOut[i] = "skipped"
         /\ pcmBuffer[i] = <<>>
         /\ procPc[i] = "done"
         /\ ~isProcessing

\* handleSpeak has finished on a reply of three bytes
C10_Witness ==
  /\ procPc[1] = "done"
  /\ Len(audioBufferData[1]) = 3
  /\ speakOut[1] = "skipped"

\* C11 as claimed: for every byte buffer of even length 2n, decodeRawPCM
\* returns n samples, sample k being the signed 16-bit little-endian number
\* of bytes 2k, 2k+1 over 32768.
C11_EveryEvenLengthDecodes ==
  \A i \in Sessions :
    (speakOut[i] \in {"played", "skipped"} /\ Len(audioBufferData[i]) % 2 = 0)
      => /\ speakOut[i] = "played"
         /\ Len(pcmBuffer[i]) = Len(audioBufferData[i]) \div 2
         /\ \A k \in 1..Len(pcmBuffer[i]) :
              LET u == audioBufferData[i][2 * k - 1] + 256 * audioBufferData[i][2 * k] IN
                pcmBuffer[i][k] = <<((u + 32768) % 65536) - 32768, 32768>>

\* C11 amended: the same for every NON-EMPTY buffer of even length 2n (the
\* empty buffer is refused by createBuffer); every sample lies in [-1, 1), and
\* the bytes 00 80 00 00 decode to -1.0, 0.0.
C11_NonEmptyEvenLengthDecodes ==
  \A i \in Sessions :
    LET data == audioBufferData[i]
        out == pcmBuffer[i] IN
      /\ (speakOut[i] \in {"played", "skipped"} /\ Len(data) % 2 = 0 /\ Len(data) > 0)
           => /\ speakOut[i] = "played"
              /\ Len(out) = Len(data) \div 2
              /\ \A k \in 1..Len(out) :
                   LET u == data[2 * k - 1] + 256 * data[2 * k] IN
                     /\ out[k] = <<((u + 32768) % 65536) - 32768, 32768>>
                     /\ -out[k][2] <= out[k][1]
                     /\ out[k][1] < out[k][2]
      /\ (speakOut[i] \in {"played", "skipped"} /\ data = <<0, 128, 0, 0>>)
           => out = << <<-32768, 32768>>, <<0, 32768>> >>
      /\ (speakOut[i] \in {"played", "skipped"} /\ Len(data) = 0)
           => (speakOut[i] = "skipped" /\ out = <<>>)

\* the reply 00 80 00 00 has been decoded and played
C11_Witness ==
  /\ audioBufferData[1] = <<0, 128, 0, 0>>
  /\ speakOut[1] = "played"
  /\ pcmBuffer[1] = << <<-32768, 32768>>, <<0, 32768>> >>

\* a number in [0, 1] (a fraction with a denominator, so not NaN)
InUnit(x) == x[2] > 0 /\ 0 <= x[1] /\ x[1] <= x[2]

\* C12: whatever the bin array holds, the scalarVolume set by updateVolume is
\* min(1, mean / 128) and lies in [0, 1], and the three band levels set by
\* update are bins 1, 4 and 8 over 255 and lie in [0, 1]; none is NaN.
C12_LevelsInRange ==
  /\ InUnit(volume)
  /\ \A b \in 1..3 : InUnit(levels[b])
  /\ (component = "LiveMicIndicator" /\ propActive /\ propStream # NoRef) =>
       LET len == Len(dataArray)
           sum == SumBins(dataArray, len) IN
         /\ len = 32
         /\ IF sum >= 128 * len
            THEN volume = <<1, 1>>
            ELSE volume[1] * 128 * len = sum * volume[2]
  /\ (component = "MiniWaveform" /\ propActive /\ propStream # NoRef) =>
       /\ Len(dataArray) = 16
       /\ levels[1][1] * 255 = dataArray[2] * levels[1][2]
       /\ levels[2][1] * 255 = dataArray[5] * levels[2][2]
       /\ levels[3][1] * 255 = dataArray[9] * levels[3][2]

\* every bin at 255: the mean is above 128 and the volume is held at 1
C12_Witness ==
  /\ component = "LiveMicIndicator"
  /\ propActive
  /\ Len(dataArray) = 32
  /\ \A j \in 1..32 : dataArray[j] = 255
  /\ volume = <<1, 1>>

\* C13 as claimed: a frame is requested and a value emitted by the polling
\* loop only while the analyzer is active on a stream that is live; once the
\* stream is inactive or the effect was cleaned up there is no further tick.
C13_NoTickAfterInactive ==
  [][nextFrame' # nextFrame
       => (propActive' /\ propStream' # NoRef /\ trackLive[propStream'])]_vars

C14_RefusalOnlyReports ==
  [][\A i \in Sessions :
       (pc[i] = "awaiting" /\ pc'[i] = "denied")
         => /\ error' = "mic"
            /\ isRecording' = isRecording
            /\ (i \notin overlapped => ~isRecording')
            /\ mediaRecorderRef' = mediaRecorderRef
            /\ mediaRecorderRef' # i
            /\ streamRef' = streamRef
            /\ streams' = streams /\ streams'[i] = "none"
            /\ ctx' = ctx /\ ctx'[i] = "none"
            /\ blobs' = blobs /\ blobs'[i] = NoBlob
            /\ procPc' = procPc
            /\ isProcessing' = isProcessing
            /\ nextId' = nextId
            /\ \A j \in Sessions : j # i => pc'[j] = pc[j]]_vars

\* the only call of startRecording was refused and reported
C14_Witness ==
  /\ nextId = 2
  /\ pc[1] = "denied"
  /\ error = "mic"
  /\ ~isRecording
  /\ mediaRecorderRef = NoRef
  /\ blobs[1] = NoBlob

\* C18 as claimed: once the button is up again and no acquisition is
\* pending, no recorder is recording, no capture stream is live and
\* isRecording is false.
C18_StopCancelsPendingStart ==
  (~buttonHeld /\ \A i \in Sessions : pc[i] # "awaiting")
    => /\ \A i \in Sessions : pc[i] # "recording" /\ streams[i] # "live"
       /\ ~isRecording

\* C19 as claimed: when the processing of a finalized recording has come to
\* its end, by success or by failure, isProcessing is false again.
C19_ProcessingEnds ==
  (/\ \E i \in Sessions : procPc[i] \in {"done", "rejected"}
   /\ \A i \in Sessions : procPc[i] \notin {"analysing", "speaking"})
    => ~isProcessing

\* C15 as claimed: the panel never has more than one live capture stream,
\* and once it is closed with no acquisition pending none of its streams is
\* live.
C15_OnePreviewStream ==
  /\ Cardinality(Live(acquired)) <= 1
  /\ (~isOpen /\ Pending(acquired) = {}) => Live(acquired) = {}

\* C16: after every sample the isClipping flag is (sample >= threshold), so
\* after any sequence of samples it is the comparison of the last one; a
\* strictly decreasing sequence that starts at or above the threshold and
\* ends below it changes the flag exactly once, at the first sample below.
C16_ClippingIsLastComparison ==
  LET n == Len(levelSamples) IN
    /\ Len(clipHistory) = n
    /\ \A k \in 1..n : clipHistory[k] = (levelSamples[k] >= 90)
    /\ n > 0 => (isClipping = (levelSamples[n] >= 90))
    /\ (/\ n > 1
        /\ \A k \in 1..(n - 1) : levelSamples[k + 1] < levelSamples[k]
        /\ levelSamples[1] >= 90
        /\ levelSamples[n] < 90)
         => /\ Cardinality({k \in 2..n : clipHistory[k] # clipHistory[k - 1]}) = 1
            /\ \A k \in 2..n :
                 (clipHistory[k] # clipHistory[k - 1])
                   <=> (levelSamples[k - 1] >= 90 /\ levelSamples[k] < 90)

\* the samples 1.00, 0.90, 0.89: the flag was raised, kept, then dropped
C16_Witness ==
  /\ levelSamples = <<100, 90, 89>>
  /\ clipHistory = <<TRUE, TRUE, FALSE>>
  /\ ~isClipping

\* C20 as claimed: a run of refreshDevices that ends while a device picked
\* by the user is selected leaves selectedDeviceId as it is.
C20_SelectionKept ==
  [][(/\ \E k \in 1..MaxAcq : acquired[k] = "awaitRefresh" /\ acquired'[k] # "awaitRefresh"
      /\ userChose
      /\ selectedDeviceId # NoDevice)
       => selectedDeviceId' = selectedDeviceId]_vars

====
